---------------------------- MODULE Spec2Model ----------------------------
(***************************************************************************)
(* A model of the WhatsHap read-based phasing pipeline                     *)
(* (src/whatshap/scripts/whatshap.py) and of the phase extension           *)
(* (src/whatshap/cli/extend.py).                                           *)
(*                                                                         *)
(* Every stage is checked under a specification of its own, whose Init     *)
(* draws the stage's input from a bounded universe:                        *)
(*   SpecSlice    slice_reads (the while loop, one step per action)        *)
(*   SpecComp     find_components over a ComponentFinder                   *)
(*   SpecMain     main: slice_reads, the read set of the DP, the components*)
(*   SpecMerge    merge_paired_reads over grouped_by_name                  *)
(*   SpecFilter   filter_reads                                             *)
(*   SpecProj     find_alleles                                             *)
(*   SpecVotes    compute_votes                                            *)
(*   SpecExtend   run_extend: the loop over the vote table of a sample     *)
(*   SpecSamples  run_extend: the loop over the samples and the write      *)
(*   SpecPolymer  length_of_polymer                                        *)
(*   SpecSliceFair  SpecSlice with weak fairness of its steps              *)
(* The variables of the stages a specification does not use stay at their  *)
(* initial value.                                                          *)
(***************************************************************************)
EXTENDS Integers, Sequences, FiniteSets, TLC

VARIABLES
    pc,                   \* position of the running stage
    reads,                \* the list of fragments a stage works on
    max_coverage,         \* slice_reads: its parameter
    position_list,        \* slice_reads: the sorted positions of the reads
    slices,               \* slice_reads: the layers, a list of lists
    slice_coverages,      \* slice_reads: one coverage vector per layer
    read_idx,             \* slice_reads: index of the read of the for loop
    slice_id,             \* slice_reads: layer examined by the while loop
    skipped_reads,        \* slice_reads: reads that cover one SNP only
    accessible_positions, \* slice_reads: positions of the placed reads
    core_reads,           \* main: the ReadSet handed to the DP
    superreads,           \* main: the first super-read the DP returns
    nodes,                \* ComponentFinder.nodes: position -> parent
    cf_read,              \* find_components: index of the read of the loop
    cf_k,                 \* find_components: index into positions[1:]
    components,           \* find_components: its result
    reads_with_variants,  \* main: the projected reads, sorted by name
    unfiltered,           \* main: the reads handed to filter_reads
    mincount,             \* filter_reads: its parameter
    variants,             \* find_alleles: the variants of the chromosome
    start,                \* find_alleles: the index to start at
    alignment,            \* find_alleles: its parameter read, an alignment
    read_variants,        \* find_alleles: its result
    homozygous,           \* run_extend: position -> the genotype is homozygous
    votes,                \* run_extend: the vote table, in insertion order
    phased,               \* run_extend: position -> the phase in the VCF or None
    change,               \* run_extend: position -> the variant
    fasta_chr,            \* run_extend: the reference of the chromosome
    gap_threshold,        \* run_extend: its parameter
    cut_poly,             \* run_extend: its parameter
    only_indels,          \* run_extend: its parameter
    vote_idx,             \* run_extend: the entry "for pos, var in votes.items()" is at
    super_reads,          \* run_extend: the two lists of emitted variants
    poly_step,            \* length_of_polymer: its parameter step
    poly_res,             \* length_of_polymer: its result
    samples,              \* run_extend: vcf_reader.samples
    sample,               \* run_extend: the index of the sample of the loop
    sample_votes,         \* run_extend: sample -> the vote table of its reads
    sample_to_super_reads, \* run_extend: sample -> its super_reads
    sample_to_components, \* run_extend: sample -> its components
    written               \* what vcf_writer.write was given

sliceVars == <<reads, max_coverage, position_list, slices, slice_coverages, read_idx,
               slice_id, skipped_reads, accessible_positions>>

compVars == <<core_reads, superreads, nodes, cf_read, cf_k, components>>

pipeVars == <<reads_with_variants, unfiltered, mincount>>

projVars == <<variants, start, alignment, read_variants>>

runVars == <<poly_step, poly_res, samples, sample, sample_votes, sample_to_super_reads,
             sample_to_components, written>>

extVars == <<homozygous, votes, phased, change, fasta_chr, gap_threshold, cut_poly,
             only_indels, vote_idx, super_reads>>

otherThanSlice == <<compVars, pipeVars, projVars, runVars, extVars>>

otherThanComp == <<sliceVars, pipeVars, projVars, runVars, extVars>>

vars == <<pc, sliceVars, compVars, pipeVars, projVars, runVars, extVars>>

-----------------------------------------------------------------------------
(* Bounds of the model.                                                    *)

\* positions (SNP coordinates) of the slicer's fragments are 1..MaxPos
MaxPos == 3
\* slice_reads is given at most MaxReads fragments
MaxReads == 2
\* max_coverage ranges over 1..MaxCov
MaxCov == 2
\* find_components alone: positions 1..CompMaxPos, at most CompMaxReads reads
CompMaxPos == 3
CompMaxReads == 2
\* main: positions 1..MainMaxPos, at most MainMaxReads fragments
MainMaxPos == 4
MainMaxReads == 3
\* merge_paired_reads: at most MergeMaxReads reads, positions 1..MergeMaxPos
MergeMaxReads == 4
MergeMaxPos == 2
\* filter_reads: at most FilterMaxReads fragments, mincount in 1..MaxMinCount
FilterMaxReads == 2
MaxMinCount == 3
\* find_alleles: a CIGAR of at most MaxCigarOps operations, variants at the
\* positions 0..MaxRefPos
MaxCigarOps == 2
MaxRefPos == 3

\* compute_votes gets at most VotesMaxReads tagged reads
VotesMaxReads == 2

\* run_extend: the reference of the chromosome has RefLen bases
RefLen == 4

\* length_of_polymer: the thresholds are 1..MaxThreshold
MaxThreshold == 3

\* run_extend: the VCF has at most MaxSamples samples
MaxSamples == 2

-----------------------------------------------------------------------------
(* Generic helpers.                                                        *)

Max(S) == CHOOSE x \in S : \A y \in S : y <= x

Min(S) == CHOOSE x \in S : \A y \in S : x <= y

\* all sequences over S of length 0..n
SeqsUpTo(S, n) == UNION {[1..k -> S] : k \in 0..n}

\* the elements of a finite set of integers in ascending order: sorted(S)
RECURSIVE Sorted(_)
Sorted(S) == IF S = {} THEN <<>> ELSE <<Min(S)>> \o Sorted(S \ {Min(S)})

-----------------------------------------------------------------------------
(* Fragments: ReadVariantList(name, mapq, variants); an entry of variants  *)
(* is a ReadVariant(position, base, allele, quality) or None, the          *)
(* separator of the two mates of a merged pair.                            *)

None == [position |-> 0 - 1, base |-> "None", allele |-> "None", quality |-> 0]

IsNone(variant) == variant.allele = "None"

ReadVariant(p, b, a, q) == [position |-> p, base |-> b, allele |-> a, quality |-> q]

ReadVariantList(n, m, v) == [name |-> n, mapq |-> m, variants |-> v]

\* the non-sentinel entries of a fragment, in order
Observations(vs) == SelectSeq(vs, LAMBDA v : ~IsNone(v))

\* position_set: the positions that occur in a list of fragments
position_set(rs) ==
    UNION {{rs[i].variants[k].position :
              k \in {m \in 1..Len(rs[i].variants) : ~IsNone(rs[i].variants[m])}} :
           i \in 1..Len(rs)}

\* an observation of the slicer's universe: the slicer reads positions only
Obs(p) == ReadVariant(p, "A", "0", 30)

\* the observations of one mate: ascending positions, as find_alleles emits
MateOf(S) == [k \in 1..Cardinality(S) |-> Obs(Sorted(S)[k])]

\* the fragments slice_reads is given: single reads (mapq <<q>>) with one or
\* more observations, and merged pairs (mapq <<qA, qB>>) of two mates with
\* one observation each, whose positions increase across the separator
SingleReads(P) ==
    {ReadVariantList("r", <<60>>, MateOf(S)) : S \in (SUBSET (1..P)) \ {{}}}

PairOf(S, c) ==
    ReadVariantList("r", <<60, 60>>,
                    MateOf({x \in S : x <= c}) \o <<None>> \o MateOf({x \in S : x > c}))

MergedPairs(P) ==
    UNION {{PairOf(S, c) : c \in S \ {Max(S)}} :
           S \in {T \in SUBSET (1..P) : Cardinality(T) = 2}}

SliceFragments == SingleReads(MaxPos) \cup MergedPairs(MaxPos)

-----------------------------------------------------------------------------
(* CoverageMonitor: coverage is a list of counters, indexed from 0.        *)

\* counters that start at 1
CoverageMonitorOfOnes(length) == [i \in 0..(length - 1) |-> 1]

CoverageMonitor(length) == [i \in 0..(length - 1) |-> 0]

\* coverage[begin:end], the slice of a Python list: positions outside the
\* list are left out
CoverageSlice(coverage, begin, end) ==
    {i \in DOMAIN coverage : begin <= i /\ i < end}

\* max(self.coverage[begin:end]); max() of an empty slice raises ValueError
max_coverage_in_range(coverage, begin, end) ==
    Max({coverage[i] : i \in CoverageSlice(coverage, begin, end)})

\* the counter at begin alone is raised
add_read_at_begin(coverage, begin, end) ==
    [i \in DOMAIN coverage |-> IF i = begin THEN coverage[i] + 1 ELSE coverage[i]]

add_read(coverage, begin, end) ==
    [i \in DOMAIN coverage |->
        IF begin <= i /\ i < end THEN coverage[i] + 1 ELSE coverage[i]]

-----------------------------------------------------------------------------
(* slice_reads                                                             *)

\* position_to_index: the index (from 0) of a position in position_list
position_to_index(position) ==
    (CHOOSE i \in 1..Len(position_list) : position_list[i] = position) - 1

\* begin and end of the read of the for loop
FirstVariant(read) == read.variants[1]

LastVariant(read) == read.variants[Len(read.variants)]

begin_of(read) == position_to_index(FirstVariant(read).position)

end_of(read) == position_to_index(LastVariant(read).position) + 1

\* list.sort(key=lambda r: r.variants[0].position): a stable sort
RECURSIVE InsertByFirst(_, _)
InsertByFirst(sorted, read) ==
    IF sorted = <<>> THEN <<read>>
    ELSE IF FirstVariant(sorted[Len(sorted)]).position <= FirstVariant(read).position
         THEN Append(sorted, read)
         ELSE Append(InsertByFirst(SubSeq(sorted, 1, Len(sorted) - 1), read),
                     sorted[Len(sorted)])

RECURSIVE SortByFirst(_)
SortByFirst(read_list) ==
    IF read_list = <<>> THEN <<>>
    ELSE InsertByFirst(SortByFirst(SubSeq(read_list, 1, Len(read_list) - 1)),
                       read_list[Len(read_list)])

\* the state slice_reads starts the for loop in
SliceEntry ==
    /\ position_list = Sorted(position_set(reads))
    /\ slices = <<<<>>>>
    /\ slice_coverages = <<CoverageMonitor(Len(position_list))>>
    /\ read_idx = 1
    /\ slice_id = 0
    /\ skipped_reads = 0
    /\ accessible_positions = {}

IdlePipe ==
    /\ reads_with_variants = <<>>
    /\ unfiltered = <<>>
    /\ mincount = 0

IdleProj ==
    /\ variants = <<>>
    /\ start = 0
    /\ alignment = <<>>
    /\ read_variants = <<>>

IdleRun ==
    /\ poly_step = 0
    /\ poly_res = 0
    /\ samples = <<>>
    /\ sample = 0
    /\ sample_votes = <<>>
    /\ sample_to_super_reads = <<>>
    /\ sample_to_components = <<>>
    /\ written = <<>>

IdleExt ==
    /\ homozygous = <<>>
    /\ votes = <<>>
    /\ phased = <<>>
    /\ change = <<>>
    /\ fasta_chr = <<>>
    /\ gap_threshold = 0
    /\ cut_poly = 0
    /\ only_indels = FALSE
    /\ vote_idx = 0
    /\ super_reads = <<>>

IdleComp ==
    /\ core_reads = <<>>
    /\ superreads = <<>>
    /\ nodes = <<>>
    /\ cf_read = 0
    /\ cf_k = 0
    /\ components = <<>>

InitSlice ==
    /\ pc = "for"
    /\ reads \in SeqsUpTo(SliceFragments, MaxReads)
    /\ max_coverage \in 1..MaxCov
    /\ SliceEntry
    /\ IdleComp
    /\ IdlePipe
    /\ IdleProj
    /\ IdleRun
    /\ IdleExt

\* for read in reads: if len(read.variants) < 2: skipped_reads += 1; continue
SkipRead ==
    /\ pc = "for"
    /\ read_idx <= Len(reads)
    /\ Len(reads[read_idx].variants) < 2
    /\ skipped_reads' = skipped_reads + 1
    /\ read_idx' = read_idx + 1
    /\ UNCHANGED <<pc, reads, max_coverage, position_list, slices, slice_coverages, slice_id,
                   accessible_positions, otherThanSlice>>

\* the read has two entries or more: note its positions, compute begin and
\* end, and enter the while loop at slice 0
BeginRead ==
    /\ pc = "for"
    /\ read_idx <= Len(reads)
    /\ Len(reads[read_idx].variants) >= 2
    /\ accessible_positions' =
          accessible_positions \cup position_set(<<reads[read_idx]>>)
    /\ slice_id' = 0
    /\ pc' = "while"
    /\ UNCHANGED <<reads, max_coverage, position_list, slices, slice_coverages, read_idx,
                   skipped_reads, otherThanSlice>>

\* a slip in the test of the while loop: <= for <
FitsOffByOne(coverage, begin, end) ==
    max_coverage_in_range(coverage, begin, end) <= max_coverage

\* "Does current read fit into this slice?"
Fits(coverage, begin, end) ==
    max_coverage_in_range(coverage, begin, end) < max_coverage

\* the read fits into slice slice_id: add_read, append, break
PlaceRead ==
    /\ pc = "while"
    /\ LET read == reads[read_idx]
           begin == begin_of(read)
           end == end_of(read)
       IN  /\ CoverageSlice(slice_coverages[slice_id + 1], begin, end) # {}
           /\ Fits(slice_coverages[slice_id + 1], begin, end)
           /\ slice_coverages' =
                 [slice_coverages EXCEPT
                     ![slice_id + 1] = add_read(@, begin, end)]
           /\ slices' = [slices EXCEPT ![slice_id + 1] = Append(@, read)]
    /\ read_idx' = read_idx + 1
    /\ pc' = "for"
    /\ UNCHANGED <<reads, max_coverage, position_list, slice_id, skipped_reads,
                   accessible_positions, otherThanSlice>>

\* the read does not fit: slice_id += 1, and a new slice when there is none
TryNextSlice ==
    /\ pc = "while"
    /\ LET read == reads[read_idx]
           begin == begin_of(read)
           end == end_of(read)
       IN  /\ CoverageSlice(slice_coverages[slice_id + 1], begin, end) # {}
           /\ ~Fits(slice_coverages[slice_id + 1], begin, end)
    /\ slice_id' = slice_id + 1
    /\ IF slice_id + 1 = Len(slices)
       THEN /\ slices' = Append(slices, <<>>)
            /\ slice_coverages' =
                  Append(slice_coverages, CoverageMonitor(Len(position_list)))
       ELSE UNCHANGED <<slices, slice_coverages>>
    /\ UNCHANGED <<pc, reads, max_coverage, position_list, read_idx, skipped_reads,
                   accessible_positions, otherThanSlice>>

\* after the for loop: sort each slice by the position of its first variant
\* and return the slices
SortSlices ==
    /\ pc = "for"
    /\ read_idx > Len(reads)
    /\ slices' = [k \in 1..Len(slices) |-> SortByFirst(slices[k])]
    /\ pc' = "sliced"
    /\ UNCHANGED <<reads, max_coverage, position_list, slice_coverages, read_idx, slice_id,
                   skipped_reads, accessible_positions, otherThanSlice>>

NextSlice == SkipRead \/ BeginRead \/ PlaceRead \/ TryNextSlice \/ SortSlices

SpecSlice == InitSlice /\ [][NextSlice]_vars

\* slice_reads is one sequential call: a step that can be taken is taken
SpecSliceFair == SpecSlice /\ WF_vars(NextSlice)

-----------------------------------------------------------------------------
(* ComponentFinder: union-find without union by rank; nodes maps a value   *)
(* to the value of its parent node, NoParent for a root.                   *)

NoParent == 0 - 1

\* ComponentFinder.__init__
ComponentFinder(values) == [x \in values |-> NoParent]

\* the first loop of _find_node: follow the parents up to the root
RECURSIVE RootOf(_, _)
RootOf(ns, x) == IF ns[x] = NoParent THEN x ELSE RootOf(ns, ns[x])

\* the nodes on the way from x to its root, the root left out
RECURSIVE PathOf(_, _)
PathOf(ns, x) == IF ns[x] = NoParent THEN {} ELSE {x} \cup PathOf(ns, ns[x])

\* the second loop of _find_node ("compression path"): every node on the
\* way gets the root as its parent
Compress(ns, x) ==
    [n \in DOMAIN ns |-> IF n \in PathOf(ns, x) THEN RootOf(ns, x) ELSE ns[n]]

\* _find_node: the root, and the nodes after the compression
find_node(ns, x) == [root |-> RootOf(ns, x), nodes |-> Compress(ns, x)]

\* a slip in merge: the root of y always goes below the root of x
LinkRootsUnordered(ns, x_root, y_root) == [ns EXCEPT ![y_root] = x_root]

\* "Merge, making sure that the node with the smaller value is the new
\* parent": the nodes after linking the two roots
LinkRoots(ns, x_root, y_root) ==
    IF x_root < y_root
    THEN [ns EXCEPT ![y_root] = x_root]
    ELSE [ns EXCEPT ![x_root] = y_root]

\* ComponentFinder.merge; its caller never passes x = y
merge(ns, x, y) ==
    LET fx == find_node(ns, x)
        fy == find_node(fx.nodes, y)
    IN  IF fx.root = fy.root
        THEN fy.nodes
        ELSE LinkRoots(fy.nodes, fx.root, fy.root)

\* ComponentFinder.find
find(ns, x) == find_node(ns, x).root

-----------------------------------------------------------------------------
(* find_components(superreads, reads)                                      *)

\* the allele of a super-read position the DP could not phase
Unphased == 0 - 2

\* [position for position, base, allele, quality in superreads[0]
\*  if allele in [0, 1]]
phased_positions ==
    LET sel == SelectSeq(superreads, LAMBDA v : v.allele \in {0, 1})
    IN  [k \in 1..Len(sel) |-> sel[k].position]

PhasedSet == {phased_positions[k] : k \in 1..Len(phased_positions)}

\* [position for position, base, allele, quality in read
\*  if position in phased_positions]
PhasedOf(read) ==
    LET sel == SelectSeq(read, LAMBDA v : v.position \in PhasedSet)
    IN  [k \in 1..Len(sel) |-> sel[k].position]

\* component_finder = ComponentFinder(phased_positions)
CFStart ==
    /\ pc = "components"
    /\ nodes' = ComponentFinder(PhasedSet)
    /\ cf_read' = 1
    /\ cf_k' = 2
    /\ pc' = "merge"
    /\ UNCHANGED <<core_reads, superreads, components, otherThanComp>>

\* for position in positions[1:]: component_finder.merge(positions[0], position)
CFMerge ==
    /\ pc = "merge"
    /\ cf_read <= Len(core_reads)
    /\ LET positions == PhasedOf(core_reads[cf_read])
       IN  /\ cf_k <= Len(positions)
           /\ positions[1] # positions[cf_k]
           /\ nodes' = merge(nodes, positions[1], positions[cf_k])
    /\ cf_k' = cf_k + 1
    /\ UNCHANGED <<pc, core_reads, superreads, cf_read, components, otherThanComp>>

\* the positions of the read are done: for read in reads
CFNextRead ==
    /\ pc = "merge"
    /\ cf_read <= Len(core_reads)
    /\ cf_k > Len(PhasedOf(core_reads[cf_read]))
    /\ cf_read' = cf_read + 1
    /\ cf_k' = 2
    /\ UNCHANGED <<pc, core_reads, superreads, nodes, components, otherThanComp>>

\* components = { position : component_finder.find(position) for position
\* in phased_positions }; every find compresses the path it walks
CFFinish ==
    /\ pc = "merge"
    /\ cf_read > Len(core_reads)
    /\ components' = [position \in PhasedSet |-> find(nodes, position)]
    /\ nodes' = [n \in DOMAIN nodes |->
                    IF nodes[n] = NoParent THEN NoParent ELSE RootOf(nodes, n)]
    /\ pc' = "done"
    /\ UNCHANGED <<core_reads, superreads, cf_read, cf_k, otherThanComp>>

\* find_components on its own: a super-read over 1..CompMaxPos and a read
\* set whose reads hold two or more variants at ascending positions
SuperReads(positions) ==
    {[k \in 1..Len(Sorted(positions)) |->
         [position |-> Sorted(positions)[k],
          allele |-> IF Sorted(positions)[k] \in ph THEN 0 ELSE Unphased]] :
     ph \in SUBSET positions}

CoreReads(P) == {MateOf(S) : S \in {T \in SUBSET (1..P) : Cardinality(T) >= 2}}

IdleSlice ==
    /\ reads = <<>>
    /\ max_coverage = 0
    /\ position_list = <<>>
    /\ slices = <<>>
    /\ slice_coverages = <<>>
    /\ read_idx = 0
    /\ slice_id = 0
    /\ skipped_reads = 0
    /\ accessible_positions = {}

InitComp ==
    /\ pc = "components"
    /\ core_reads \in SeqsUpTo(CoreReads(CompMaxPos), CompMaxReads)
    /\ superreads \in SuperReads(1..CompMaxPos)
    /\ nodes = <<>>
    /\ cf_read = 0
    /\ cf_k = 0
    /\ components = <<>>
    /\ IdleSlice
    /\ IdlePipe
    /\ IdleProj
    /\ IdleRun
    /\ IdleExt

NextComp == CFStart \/ CFMerge \/ CFNextRead \/ CFFinish

SpecComp == InitComp /\ [][NextComp]_vars

-----------------------------------------------------------------------------
(* main, from slice_reads on: the first slice goes to the DP, and the      *)
(* components are computed from the super-reads and the DP's read set.     *)

\* slice_reads(reads, args.max_coverage), then a slip: all slices are kept
all_slices(sl) ==
    LET RECURSIVE Cat(_)
        Cat(k) == IF k = 0 THEN <<>> ELSE Cat(k - 1) \o sl[k]
    IN  Cat(Len(sl))

\* slice_reads(reads, args.max_coverage)[0]
first_slice(sl) == sl[1]

\* read_to_coreread: the variants of the fragment without the separator
read_to_coreread(read) == Observations(read.variants)

\* core_reads = ReadSet(); core_reads.add(...) for each read; finalize().
\* The reads of a slice are sorted by their first position already.
ReadSetOf(rs) == [k \in 1..Len(rs) |-> read_to_coreread(rs[k])]

\* reads = slice_reads(reads, args.max_coverage)[0], and the ReadSet of it
TakeFirstSlice ==
    /\ pc = "sliced"
    /\ reads' = first_slice(slices)
    /\ core_reads' = ReadSetOf(first_slice(slices))
    /\ pc' = "dp"
    /\ UNCHANGED <<max_coverage, position_list, slices, slice_coverages, read_idx, slice_id,
                   skipped_reads, accessible_positions, superreads, nodes,
                   cf_read, cf_k, components, pipeVars, projVars, runVars, extVars>>

\* DPTable(core_reads, all_het).getSuperReads(): a super-read over the
\* positions of the read set; which of them the DP phases is its choice
GetSuperReads ==
    /\ pc = "dp"
    /\ superreads' \in SuperReads(position_set(reads))
    /\ pc' = "components"
    /\ UNCHANGED <<sliceVars, core_reads, nodes, cf_read, cf_k, components,
                   pipeVars, projVars, runVars, extVars>>

\* the fragments main hands to slice_reads passed filter_reads: two
\* observations or more at ascending positions; here reads over two
\* neighbouring variants
MainFragments ==
    {ReadVariantList("r", <<60>>, MateOf({p, p + 1})) : p \in 1..(MainMaxPos - 1)}

InitMain ==
    /\ pc = "for"
    /\ reads \in SeqsUpTo(MainFragments, MainMaxReads)
    /\ max_coverage \in 1..MaxCov
    /\ SliceEntry
    /\ IdleComp
    /\ IdlePipe
    /\ IdleProj
    /\ IdleRun
    /\ IdleExt

NextMain ==
    \/ BeginRead \/ PlaceRead \/ TryNextSlice \/ SortSlices
    \/ TakeFirstSlice \/ GetSuperReads
    \/ CFStart \/ CFMerge \/ CFNextRead \/ CFFinish

SpecMain == InitMain /\ [][NextMain]_vars

-----------------------------------------------------------------------------
(* grouped_by_name and merge_paired_reads                                  *)

\* grouped_by_name: the loop from read k on; prev is rs[k - 1], and a read
\* object is always true
RECURSIVE GroupFrom(_, _, _, _)
GroupFrom(rs, k, result, current) ==
    IF k > Len(rs) THEN Append(result, current)
    ELSE IF k > 1 /\ rs[k].name # rs[k - 1].name
         THEN GroupFrom(rs, k + 1, Append(result, current), <<rs[k]>>)
         ELSE GroupFrom(rs, k + 1, result, Append(current, rs[k]))

grouped_by_name(rs) == GroupFrom(rs, 1, <<>>, <<>>)

\* a slip in the merge: the separator is left out
merged_variants_joined(a, b) == a.variants \o b.variants

\* merged_variants = group[0].variants + [None] + group[1].variants
merged_variants(a, b) == a.variants \o <<None>> \o b.variants

\* ReadVariantList(name=group[0].name, mapq=(group[0].mapq, group[1].mapq),
\*                 variants=merged_variants)
merged_read(a, b) == ReadVariantList(a.name, a.mapq \o b.mapq, merged_variants(a, b))

\* what the loop of merge_paired_reads appends for one group
MergeGroup(group) ==
    IF Len(group) = 1 THEN <<group[1]>>
    ELSE IF Len(group) = 2 THEN <<merged_read(group[1], group[2])>>
    ELSE <<>>

RECURSIVE MergeGroups(_, _)
MergeGroups(groups, k) ==
    IF k = 0 THEN <<>> ELSE MergeGroups(groups, k - 1) \o MergeGroup(groups[k])

\* assert len(group) <= 2, "More than two reads with the same name found"
AssertGroups(groups) == \A k \in 1..Len(groups) : Len(groups[k]) <= 2

\* reads = merge_paired_reads(reads_with_variants): every group has at most
\* two reads
MergePairedReads ==
    /\ pc = "merge_paired_reads"
    /\ AssertGroups(grouped_by_name(reads_with_variants))
    /\ reads' = MergeGroups(grouped_by_name(reads_with_variants),
                            Len(grouped_by_name(reads_with_variants)))
    /\ pc' = "merged"
    /\ UNCHANGED <<max_coverage, position_list, slices, slice_coverages,
                   read_idx, slice_id, skipped_reads, accessible_positions,
                   compVars, pipeVars, projVars, runVars, extVars>>

\* a group of three reads or more: the assertion fails, nothing is returned
MergeAssertionError ==
    /\ pc = "merge_paired_reads"
    /\ ~AssertGroups(grouped_by_name(reads_with_variants))
    /\ pc' = "AssertionError"
    /\ UNCHANGED <<sliceVars, compVars, pipeVars, projVars, runVars, extVars>>

\* the projected reads: a name, a mapping quality and the observations of
\* one alignment (find_alleles returned one or more), sorted by name
ReadNames == <<"a", "b", "c">>

MapQs == {20, 60}

ProjectedReads(n) ==
    {ReadVariantList(ReadNames[n], <<q>>, <<Obs(p)>>) :
        q \in MapQs, p \in 1..MergeMaxPos}

SortedNameLists ==
    {ns \in SeqsUpTo(1..Len(ReadNames), MergeMaxReads) :
        \A k \in 1..(Len(ns) - 1) : ns[k] <= ns[k + 1]}

ReadListsNamed(ns) ==
    {rs \in [1..Len(ns) -> UNION {ProjectedReads(n) : n \in 1..Len(ReadNames)}] :
        \A k \in 1..Len(ns) : rs[k].name = ReadNames[ns[k]]}

InitMerge ==
    /\ pc = "merge_paired_reads"
    /\ reads_with_variants \in UNION {ReadListsNamed(ns) : ns \in SortedNameLists}
    /\ unfiltered = <<>>
    /\ mincount = 0
    /\ IdleSlice
    /\ IdleComp
    /\ IdleProj
    /\ IdleRun
    /\ IdleExt

NextMerge == MergePairedReads \/ MergeAssertionError

SpecMerge == InitMerge /\ [][NextMerge]_vars

\* the reads of rs with the name n, in order
NamedReads(rs, n) == SelectSeq(rs, LAMBDA r : r.name = n)

\* the names of rs in the order of their first occurrence
RECURSIVE DistinctNames(_, _)
DistinctNames(rs, k) ==
    IF k = 0 THEN <<>>
    ELSE LET before == DistinctNames(rs, k - 1)
         IN  IF \E i \in 1..Len(before) : before[i] = rs[k].name
             THEN before
             ELSE Append(before, rs[k].name)

\* C7: from reads sorted by name merge_paired_reads returns one fragment
\* per distinct name, in input order: the read itself for a name that occurs
\* once, and for a name that occurs twice one fragment with the first
\* mate's observations, one separator, the second mate's observations and
\* the pair of mapping qualities; a name that occurs more than twice makes
\* it fail and return nothing.
C7_MergePairedReads ==
    LET rs == reads_with_variants
        names == DistinctNames(rs, Len(rs))
        ambiguous == \E k \in 1..Len(names) : Len(NamedReads(rs, names[k])) > 2
    IN  /\ pc = "AssertionError" => ambiguous /\ reads = <<>>
        /\ pc = "merged" =>
              /\ ~ambiguous
              /\ Len(reads) = Len(names)
              /\ \A k \in 1..Len(names) :
                    LET group == NamedReads(rs, names[k])
                    IN  IF Len(group) = 1
                        THEN reads[k] = group[1]
                        ELSE /\ reads[k].name = names[k]
                             /\ reads[k].variants =
                                   group[1].variants \o <<None>> \o group[2].variants
                             /\ Len(SelectSeq(reads[k].variants, IsNone)) = 1
                             /\ reads[k].mapq = <<group[1].mapq[1], group[2].mapq[1]>>

\* C7, witness: a pair with different mapping qualities and positions was
\* merged and a single read was passed on after it.
C7_Witness ==
    /\ pc = "merged"
    /\ Len(reads) >= 2
    /\ Len(reads[1].variants) = 3
    /\ reads[1].mapq[1] # reads[1].mapq[2]
    /\ reads[1].variants[1] # reads[1].variants[3]
    /\ Len(reads[2].variants) = 1

-----------------------------------------------------------------------------
(* filter_reads                                                            *)

\* a slip at the separator: the previous position is forgotten, so that
\* positions are compared within one mate only
reset_at_separator(prev_pos) == 0 - 1

\* "if variant is None: continue" leaves prev_pos as it is
keep_at_separator(prev_pos) == prev_pos

\* assert variant.base in 'ACGT01-X'
BaseOk(base) == base \in {"", "A", "C", "G", "T", "0", "1", "-", "X"}

\* the for loop over read.variants from entry k on: "else" when the loop
\* ends without a break, "break", or "assert" when the assertion fails
RECURSIVE ScanVariants(_, _, _)
ScanVariants(vs, k, prev_pos) ==
    IF k > Len(vs) THEN "else"
    ELSE IF IsNone(vs[k]) THEN ScanVariants(vs, k + 1, keep_at_separator(prev_pos))
    ELSE IF ~(prev_pos < vs[k].position) THEN "break"
    ELSE IF vs[k].allele = "E" THEN "break"
    ELSE IF ~BaseOk(vs[k].base) THEN "assert"
    ELSE ScanVariants(vs, k + 1, vs[k].position)

\* the body of the loop over the reads: is the read appended to result?
Kept(read, mc) ==
    /\ ScanVariants(read.variants, 1, 0 - 1) = "else"
    /\ Len(read.variants) >= mc

filter_reads(rs, mc) == SelectSeq(rs, LAMBDA read : Kept(read, mc))

\* reads = filter_reads(reads)
FilterReads ==
    /\ pc = "filter_reads"
    /\ \A k \in 1..Len(reads) : ScanVariants(reads[k].variants, 1, 0 - 1) # "assert"
    /\ unfiltered' = reads
    /\ reads' = filter_reads(reads, mincount)
    /\ pc' = "filtered"
    /\ UNCHANGED <<max_coverage, position_list, slices, slice_coverages,
                   read_idx, slice_id, skipped_reads, accessible_positions,
                   compVars, reads_with_variants, mincount, projVars, runVars, extVars>>

\* the fragments filter_reads is given: single reads with one or two
\* observations at ascending positions and pairs of mates with one
\* observation each, at any two positions; any allele
Alleles == {"0", "1", "E"}

FilterPositions == {1, 2}

AlleleObs(p, a) == ReadVariant(p, "A", a, 30)

FilterFragments ==
    {ReadVariantList("r", <<60>>, <<AlleleObs(p, a)>>) :
        p \in FilterPositions, a \in Alleles}
    \cup
    {ReadVariantList("r", <<60>>, <<AlleleObs(pq[1], a), AlleleObs(pq[2], b)>>) :
        pq \in {x \in FilterPositions \X FilterPositions : x[1] < x[2]},
        a \in Alleles, b \in Alleles}
    \cup
    {ReadVariantList("r", <<60, 60>>, <<AlleleObs(p, a), None, AlleleObs(q, b)>>) :
        p \in FilterPositions, q \in FilterPositions, a \in Alleles, b \in Alleles}

InitFilter ==
    /\ pc = "filter_reads"
    /\ reads \in SeqsUpTo(FilterFragments, FilterMaxReads)
    /\ mincount \in 1..MaxMinCount
    /\ unfiltered = <<>>
    /\ reads_with_variants = <<>>
    /\ max_coverage = 0
    /\ position_list = <<>>
    /\ slices = <<>>
    /\ slice_coverages = <<>>
    /\ read_idx = 0
    /\ slice_id = 0
    /\ skipped_reads = 0
    /\ accessible_positions = {}
    /\ IdleComp
    /\ IdleProj
    /\ IdleRun
    /\ IdleExt

NextFilter == FilterReads

SpecFilter == InitFilter /\ [][NextFilter]_vars

\* the positions of the non-sentinel observations of a fragment increase
\* strictly over the whole fragment
StrictlyIncreasing(read) ==
    LET obs == Observations(read.variants)
    IN  \A k \in 1..(Len(obs) - 1) : obs[k].position < obs[k + 1].position

\* no non-sentinel observation of the fragment has allele E
NoErrorAllele(read) ==
    \A k \in 1..Len(read.variants) :
        IsNone(read.variants[k]) \/ read.variants[k].allele # "E"

\* the elements of a list
Range(rs) == {rs[k] : k \in 1..Len(rs)}

\* C3: every fragment filter_reads returns has no observation with allele
\* E and has strictly increasing positions across both mates and the
\* separator; a fragment that violates either condition is not returned;
\* the returned fragments are in their input order.
C3_FilterOutput ==
    pc = "filtered" =>
        /\ \A k \in 1..Len(reads) :
              NoErrorAllele(reads[k]) /\ StrictlyIncreasing(reads[k])
        /\ \A k \in 1..Len(unfiltered) :
              ~(NoErrorAllele(unfiltered[k]) /\ StrictlyIncreasing(unfiltered[k]))
                 => unfiltered[k] \notin Range(reads)
        /\ reads = SelectSeq(unfiltered, LAMBDA r : r \in Range(reads))

\* C3, witness: a pair whose mates are in order each, but not across the
\* separator, was dropped, and the fragment after it was kept.
C3_Witness ==
    /\ pc = "filtered"
    /\ Len(unfiltered) = 2
    /\ Len(unfiltered[1].variants) = 3
    /\ NoErrorAllele(unfiltered[1])
    /\ ~StrictlyIncreasing(unfiltered[1])
    /\ reads = <<unfiltered[2]>>

\* C9 as stated: filter_reads drops every fragment whose number of
\* non-sentinel observations is below mincount; the separator of a merged
\* pair does not count.
C9_MinimumObservations ==
    pc = "filtered" =>
        \A k \in 1..Len(reads) :
            Len(Observations(reads[k].variants)) >= mincount

-----------------------------------------------------------------------------
(* find_alleles(variants, start, read)                                     *)
(* A variant is Variant(position, reference_allele, alternative_allele);   *)
(* the alignment has pos, cigar (pairs of operator and length), seq and    *)
(* qual, the two indexed from 0. The loop state is j (index into variants, *)
(* from 0), p (reference position), s (index into the read) and the list   *)
(* read_variants.                                                          *)

\* the CIGAR operators: MIDNSHP=X are 0..8
OpM == 0
OpI == 1
OpD == 2
OpN == 3
OpS == 4
OpH == 5
OpP == 6
OpEQ == 7
OpX == 8

\* read.seq[s:s+1] and ord(read.qual[s:s+1]) - 33
BaseAt(aln, s) == aln.seq[s + 1]

QualityAt(aln, s) == aln.qual[s + 1] - 33

\* the allele of a hit
AlleleOf(base, variant) ==
    IF base = variant.reference_allele THEN "0"
    ELSE IF base = variant.alternative_allele THEN "1"
    ELSE "E"

\* while j < len(variants) and variants[j].position < p: j += 1
RECURSIVE SkipBefore(_, _, _)
SkipBefore(vs, j, p) ==
    IF j < Len(vs) /\ vs[j + 1].position < p THEN SkipBefore(vs, j + 1, p) ELSE j

\* while j < len(variants) and p < r: a hit appends a ReadVariant and
\* advances j; s and p advance in every round
RECURSIVE HitLoop(_, _, _, _)
HitLoop(vs, aln, st, r) ==
    IF st.j < Len(vs) /\ st.p < r
    THEN IF vs[st.j + 1].position = st.p
         THEN HitLoop(vs, aln,
                      [j |-> st.j + 1, p |-> st.p + 1, s |-> st.s + 1,
                       read_variants |->
                          Append(st.read_variants,
                                 ReadVariant(st.p, BaseAt(aln, st.s),
                                             AlleleOf(BaseAt(aln, st.s), vs[st.j + 1]),
                                             QualityAt(aln, st.s)))],
                      r)
         ELSE HitLoop(vs, aln, [st EXCEPT !.p = @ + 1, !.s = @ + 1], r)
    ELSE st

\* cigar_op in (0, 7, 8): "we're in a matching subregion"
AfterMatch(vs, aln, st, length) ==
    LET skipped == [st EXCEPT !.j = SkipBefore(vs, st.j, st.p)]
        looped == HitLoop(vs, aln, skipped, st.p + length)
    IN  [looped EXCEPT !.s = st.s + length, !.p = st.p + length]

\* cigar_op == 1: an insertion
AfterInsertion(st, length) == [st EXCEPT !.s = @ + length]

\* cigar_op == 2 or cigar_op == 3: a deletion or a reference skip
AfterDeletion(st, length) == [st EXCEPT !.p = @ + length]

\* soft clipping handled like hard clipping: the read cursor stays
AfterSoftClipIgnored(st, length) == st

\* cigar_op == 4: soft clipping
AfterSoftClip(st, length) == [st EXCEPT !.s = @ + length]

\* the body of "for cigar_op, length in cigar" for the operators MIDNSHP=X;
\* hard clipping and padding (5, 6) pass
CigarStep(vs, aln, st, cigar_op, length) ==
    IF cigar_op \in {OpM, OpEQ, OpX} THEN AfterMatch(vs, aln, st, length)
    ELSE IF cigar_op = OpI THEN AfterInsertion(st, length)
    ELSE IF cigar_op = OpD \/ cigar_op = OpN THEN AfterDeletion(st, length)
    ELSE IF cigar_op = OpS THEN AfterSoftClip(st, length)
    ELSE st

RECURSIVE CigarLoop(_, _, _)
CigarLoop(vs, aln, k) ==
    IF k = 0
    THEN [j |-> start, p |-> aln.pos, s |-> 0, read_variants |-> <<>>]
    ELSE CigarStep(vs, aln, CigarLoop(vs, aln, k - 1),
                   aln.cigar[k][1], aln.cigar[k][2])

find_alleles(vs, aln) == CigarLoop(vs, aln, Len(aln.cigar)).read_variants

\* read_variants = find_alleles(variants, i, read)
FindAlleles ==
    /\ pc = "find_alleles"
    /\ \A k \in 1..Len(alignment.cigar) : alignment.cigar[k][1] \in 0..8
    /\ read_variants' = find_alleles(variants, alignment)
    /\ pc' = "projected"
    /\ UNCHANGED <<sliceVars, compVars, pipeVars, variants, start, alignment, extVars,
                   runVars>>

\* an operator that is none of MIDNSHP=X: logger.error and sys.exit(1)
UnsupportedCigar ==
    /\ pc = "find_alleles"
    /\ \E k \in 1..Len(alignment.cigar) : alignment.cigar[k][1] \notin 0..8
    /\ pc' = "exit"
    /\ UNCHANGED <<sliceVars, compVars, pipeVars, projVars, runVars, extVars>>

\* the inputs: variants with reference allele A and alternative allele C at
\* ascending positions within 0..MaxRefPos; an alignment that starts at
\* position 1, whose operations are MIDNSHP=X or the unassigned code 9, whose bases are A, C, G,
\* A, ... and whose base qualities are 0, 1, 2, ...; a start index with all
\* variants before it left of the alignment
Variant(p) == [position |-> p, reference_allele |-> "A", alternative_allele |-> "C"]

VariantLists ==
    {[k \in 1..Cardinality(S) |-> Variant(Sorted(S)[k])] : S \in SUBSET (0..MaxRefPos)}

CigarOps == 0..9

\* M, I and D of length 1 or 2, every other operator of length 1
CigarPairs == ({OpM, OpI, OpD} \X {1, 2}) \cup ((CigarOps \ {OpM, OpI, OpD}) \X {1})

Cigars == SeqsUpTo(CigarPairs, MaxCigarOps)

\* the number of read bases a CIGAR spans
RECURSIVE ReadLength(_, _)
ReadLength(cigar, k) ==
    IF k = 0 THEN 0
    ELSE ReadLength(cigar, k - 1) +
         (IF cigar[k][1] \in {OpM, OpI, OpS, OpEQ, OpX} THEN cigar[k][2] ELSE 0)

ReadBases == <<"A", "C", "G">>

Alignment(cigar) ==
    [pos |-> 1,
     cigar |-> cigar,
     seq |-> [i \in 1..ReadLength(cigar, Len(cigar)) |-> ReadBases[((i - 1) % 3) + 1]],
     qual |-> [i \in 1..ReadLength(cigar, Len(cigar)) |-> 33 + (i - 1)]]

InitProj ==
    /\ pc = "find_alleles"
    /\ variants \in VariantLists
    /\ alignment \in {Alignment(c) : c \in Cigars}
    /\ start \in 0..Cardinality({k \in 1..Len(variants) :
                                    variants[k].position < alignment.pos})
    /\ read_variants = <<>>
    /\ IdleSlice
    /\ IdleComp
    /\ IdlePipe
    /\ IdleExt
    /\ IdleRun

NextProj == FindAlleles \/ UnsupportedCigar

SpecProj == InitProj /\ [][NextProj]_vars

\* the reference position and the read offset at which operation k of the
\* CIGAR begins
RECURSIVE RefStart(_, _)
RefStart(aln, k) ==
    IF k = 1 THEN aln.pos
    ELSE RefStart(aln, k - 1) +
         (IF aln.cigar[k - 1][1] \in {OpM, OpEQ, OpX, OpD, OpN}
          THEN aln.cigar[k - 1][2] ELSE 0)

RECURSIVE ReadStart(_, _)
ReadStart(aln, k) ==
    IF k = 1 THEN 0
    ELSE ReadStart(aln, k - 1) +
         (IF aln.cigar[k - 1][1] \in {OpM, OpEQ, OpX, OpI, OpS}
          THEN aln.cigar[k - 1][2] ELSE 0)

\* the operations M, = and X whose reference interval holds position p
MatchOps(aln, p) ==
    {k \in 1..Len(aln.cigar) :
        /\ aln.cigar[k][1] \in {OpM, OpEQ, OpX}
        /\ RefStart(aln, k) <= p
        /\ p < RefStart(aln, k) + aln.cigar[k][2]}

\* the read offset aligned to the reference position p
OffsetOf(aln, p) ==
    LET k == CHOOSE m \in MatchOps(aln, p) : TRUE
    IN  ReadStart(aln, k) + (p - RefStart(aln, k))

\* the variants a matching operation covers, in list order
Covered(vs, aln) == SelectSeq(vs, LAMBDA v : MatchOps(aln, v.position) # {})

\* C5: find_alleles returns, in ascending position order and once each,
\* exactly the variants whose position lies in the reference interval of
\* an M, = or X operation; each with the read base and the base quality
\* at the read offset that M/=/X/I/S advance (and the reference position
\* that M/=/X/D/N advance), and the allele 0, 1 or E of that base.
C5_AlleleProjection ==
    pc = "projected" =>
        LET expected == Covered(variants, alignment)
        IN  /\ Len(read_variants) = Len(expected)
            /\ \A k \in 1..Len(expected) :
                  LET offset == OffsetOf(alignment, expected[k].position)
                      base == alignment.seq[offset + 1]
                  IN  /\ read_variants[k].position = expected[k].position
                      /\ read_variants[k].base = base
                      /\ read_variants[k].quality = offset
                      /\ read_variants[k].allele =
                            (IF base = "A" THEN "0" ELSE IF base = "C" THEN "1" ELSE "E")

\* C5, witness: a variant is observed after an insertion or a soft clip
\* moved the read cursor ahead of the reference cursor, and another variant
\* of the list is not covered.
C5_Witness ==
    /\ pc = "projected"
    /\ Len(read_variants) >= 1
    /\ Len(read_variants) < Len(variants)
    /\ \E k \in 1..Len(read_variants) :
          read_variants[k].quality > read_variants[k].position - alignment.pos

-----------------------------------------------------------------------------
(* compute_votes(homozygous, reads)                                        *)
(* A dict is a list of entries in insertion order: the vote table is a     *)
(* list of [pos, var], and var a list of [key, score] with key = <<ps, a>>.*)
(* A tagged read has PS, HP and its variants [position, allele, quality].  *)

\* position in votes, and the index of its entry
HasPos(table, pos) == \E i \in 1..Len(table) : table[i].pos = pos

IndexOfPos(table, pos) == CHOOSE i \in 1..Len(table) : table[i].pos = pos

\* key in var, and the index of its entry
HasKey(var, key) == \E i \in 1..Len(var) : var[i].key = key

IndexOfKey(var, key) == CHOOSE i \in 1..Len(var) : var[i].key = key

\* ht ^ variant.allele for the values 0 and 1
Xor(a, b) == (a + b) % 2

\* the key with the allele alone: the haplotype tag is left out
VoteKeyOfAllele(ps, ht, allele) == <<ps, allele>>

\* (ps, ht ^ variant.allele)
VoteKey(ps, ht, allele) == <<ps, Xor(ht, allele)>>

\* if (ps, 0) not in votes[position]: both keys start at 0
WithKeys(var, ps) ==
    IF HasKey(var, <<ps, 0>>) THEN var
    ELSE var \o <<[key |-> <<ps, 0>>, score |-> 0], [key |-> <<ps, 1>>, score |-> 0]>>

\* votes[position][key] += quality
AddScore(var, key, quality) ==
    [var EXCEPT ![IndexOfKey(var, key)].score = @ + quality]

\* the body of "for variant in read"
VoteOfVariant(table, hom, ps, ht, variant) ==
    IF hom[variant.position] THEN table
    ELSE LET opened == IF HasPos(table, variant.position) THEN table
                       ELSE Append(table, [pos |-> variant.position, var |-> <<>>])
             i == IndexOfPos(opened, variant.position)
         IN  [opened EXCEPT ![i].var =
                 AddScore(WithKeys(@, ps), VoteKey(ps, ht, variant.allele),
                          variant.quality)]

RECURSIVE VotesOfRead(_, _, _, _)
VotesOfRead(table, hom, read, k) ==
    IF k = 0 THEN table
    ELSE VoteOfVariant(VotesOfRead(table, hom, read, k - 1), hom,
                       read.PS, read.HP, read.variants[k])

\* the body of "for read in reads"
RECURSIVE VotesOfReads(_, _, _)
VotesOfReads(hom, rs, n) ==
    IF n = 0 THEN <<>>
    ELSE LET before == VotesOfReads(hom, rs, n - 1)
         IN  IF rs[n].HP < 0 \/ rs[n].PS < 0 THEN before
             ELSE VotesOfRead(before, hom, rs[n], Len(rs[n].variants))

compute_votes(hom, rs) == VotesOfReads(hom, rs, Len(rs))

\* votes = compute_votes(homozygous, reads)
ComputeVotes ==
    /\ pc = "compute_votes"
    /\ votes' = compute_votes(homozygous, reads)
    /\ pc' = "voted"
    /\ UNCHANGED <<sliceVars, compVars, pipeVars, projVars, runVars, homozygous, phased, change,
                   fasta_chr, gap_threshold, cut_poly, only_indels, vote_idx,
                   super_reads>>

\* the inputs: reads with the tags (PS, HP), a negative tag for "no tag",
\* that observe position 0 or 1 with allele 0 or 1 and quality 0 or 2, or
\* both positions; position 0 is heterozygous, position 1 either
VotePositions == {0, 1}

Tags == {<<1, 0>>, <<1, 1>>, <<2, 0>>, <<0 - 1, 1>>, <<1, 0 - 1>>}

Observation(p, a, q) == [position |-> p, allele |-> a, quality |-> q]

ObservationLists ==
    {<<Observation(p, a, q)>> : p \in VotePositions, a \in {0, 1}, q \in {0, 2}}
    \cup {<<Observation(0, a, 2), Observation(1, 1 - a, 2)>> : a \in {0, 1}}

TaggedReads == {[PS |-> tg[1], HP |-> tg[2], variants |-> vs] :
                   tg \in Tags, vs \in ObservationLists}

HomozygousTables == {[p \in VotePositions |-> p = 1 /\ h] : h \in BOOLEAN}

ExtInputsIdle ==
    /\ phased = <<>>
    /\ change = <<>>
    /\ fasta_chr = <<>>
    /\ gap_threshold = 0
    /\ cut_poly = 0
    /\ only_indels = FALSE
    /\ vote_idx = 0
    /\ super_reads = <<>>

IdleSliceState ==
    /\ max_coverage = 0
    /\ position_list = <<>>
    /\ slices = <<>>
    /\ slice_coverages = <<>>
    /\ read_idx = 0
    /\ slice_id = 0
    /\ skipped_reads = 0
    /\ accessible_positions = {}

InitVotes ==
    /\ pc = "compute_votes"
    /\ reads \in SeqsUpTo(TaggedReads, VotesMaxReads)
    /\ homozygous \in HomozygousTables
    /\ votes = <<>>
    /\ ExtInputsIdle
    /\ IdleSliceState
    /\ IdleComp
    /\ IdlePipe
    /\ IdleProj
    /\ IdleRun

NextVotes == ComputeVotes

SpecVotes == InitVotes /\ [][NextVotes]_vars

\* the vote table as a mapping: position -> key -> score
PositionsOf(table) == {table[i].pos : i \in 1..Len(table)}

KeysOf(var) == {var[i].key : i \in 1..Len(var)}

VarAt(table, pos) == table[IndexOfPos(table, pos)].var

ScoreAt(table, pos, key) ==
    LET var == VarAt(table, pos) IN var[IndexOfKey(var, key)].score

AsMapping(table) ==
    [pos \in PositionsOf(table) |->
        [key \in KeysOf(VarAt(table, pos)) |-> ScoreAt(table, pos, key)]]

IsTagged(read) == read.HP >= 0 /\ read.PS >= 0

\* the observations of position pos by tagged reads of phase set ps, as
\* pairs of read index and variant index
Sightings(rs, pos, ps) ==
    {ik \in (1..Len(rs)) \X (1..2) :
        /\ IsTagged(rs[ik[1]])
        /\ rs[ik[1]].PS = ps
        /\ ik[2] <= Len(rs[ik[1]].variants)
        /\ rs[ik[1]].variants[ik[2]].position = pos}

RECURSIVE QualitySum(_, _)
QualitySum(rs, S) ==
    IF S = {} THEN 0
    ELSE LET ik == CHOOSE x \in S : TRUE
         IN  rs[ik[1]].variants[ik[2]].quality + QualitySum(rs, S \ {ik})

Reversed(rs) == [i \in 1..Len(rs) |-> rs[Len(rs) + 1 - i]]

\* C6: the positions of the table returned by compute_votes are exactly the
\* non-homozygous positions observed by a tagged read; the keys at a
\* position are (ps, 0) and (ps, 1) for the phase sets ps of those reads,
\* and the value of (ps, a) is the sum of the qualities of the observations
\* of the position by tagged reads of phase set ps with HP XOR allele = a;
\* the same table results from the reads in reversed order.
C6_VoteAccumulation ==
    pc = "voted" =>
        /\ PositionsOf(votes) =
              {pos \in VotePositions :
                  /\ ~homozygous[pos]
                  /\ \E ps \in {1, 2} : Sightings(reads, pos, ps) # {}}
        /\ \A pos \in PositionsOf(votes) :
              /\ KeysOf(VarAt(votes, pos)) =
                    {ps \in {1, 2} : Sightings(reads, pos, ps) # {}} \X {0, 1}
              /\ \A key \in KeysOf(VarAt(votes, pos)) :
                    ScoreAt(votes, pos, key) =
                       QualitySum(reads,
                          {ik \in Sightings(reads, pos, key[1]) :
                              (reads[ik[1]].HP # reads[ik[1]].variants[ik[2]].allele)
                                 = (key[2] = 1)})
        /\ AsMapping(compute_votes(homozygous, Reversed(reads))) = AsMapping(votes)

\* C6, witness: two tagged reads of haplotype 1 voted for the same key, one
\* of them also observed a homozygous position, and the table has the one
\* heterozygous position.
C6_Witness ==
    /\ pc = "voted"
    /\ PositionsOf(votes) = {0}
    /\ homozygous[1]
    /\ \E i \in 1..Len(reads) :
          /\ IsTagged(reads[i])
          /\ reads[i].HP = 1
          /\ Len(reads[i].variants) = 2
    /\ \E key \in KeysOf(VarAt(votes, 0)) : ScoreAt(votes, 0, key) = 4

-----------------------------------------------------------------------------
(* run_extend: the loop over the vote table of one sample                  *)
(* The reference is a str indexed from 0: an index i in -len..-1 reads the *)
(* base at len + i, any other index outside 0..len-1 raises IndexError.    *)

IndexError == 0 - 1

NoPhase == "None"

InRange(ref, i) == 0 - Len(ref) <= i /\ i < Len(ref)

\* ref[i]
RefAt(ref, i) == IF i >= 0 THEN ref[i + 1] ELSE ref[Len(ref) + i + 1]

\* for i in itertools.count(start, step): the value of res at the break, or
\* IndexError
RECURSIVE PolymerLoop(_, _, _, _, _, _)
PolymerLoop(ref, start_index, step, threshold, i, res) ==
    IF res < threshold
    THEN IF ~InRange(ref, i) \/ ~InRange(ref, start_index) THEN IndexError
         ELSE IF RefAt(ref, i) = RefAt(ref, start_index)
              THEN PolymerLoop(ref, start_index, step, threshold, i + step, res + 1)
              ELSE res
    ELSE res

length_of_polymer(ref, start_index, step, threshold) ==
    PolymerLoop(ref, start_index, step, threshold, start_index, 0)

\* lst.sort(key=lambda x: x[-1], reverse=True); lst[0]: the first entry, in
\* insertion order, among those of the highest score
TopIndex(var) ==
    CHOOSE i \in 1..Len(var) :
        /\ \A k \in 1..Len(var) : var[k].score <= var[i].score
        /\ \A k \in 1..(i - 1) : var[k].score < var[i].score

RECURSIVE SumScores(_, _)
SumScores(var, n) == IF n = 0 THEN 0 ELSE SumScores(var, n - 1) + var[n].score

\* best_candidate without its assignment to components and its division:
\* (ps1, al1), score1 and total
best_candidate(var) ==
    [ps1 |-> var[TopIndex(var)].key[1],
     al1 |-> var[TopIndex(var)].key[2],
     score1 |-> var[TopIndex(var)].score,
     total |-> SumScores(var, Len(var))]

\* components[pos] = ps1
Assigned(comps, pos, ps1) ==
    [p \in DOMAIN comps \cup {pos} |-> IF p = pos THEN ps1 ELSE comps[p]]

\* change[pos].is_snv()
is_snv(variant) == variant.snv

\* 100 * q < gap_threshold and phased[pos] is None, with q = score1 / total
\* in exact arithmetic; for the scores and thresholds of this model the
\* double-precision value of 100 * q lies on the same side of gap_threshold
GapRule(best, pos) ==
    100 * best.score1 < gap_threshold * best.total /\ phased[pos] = NoPhase

\* only_indels and change[pos].is_snv() and phased[pos] is None
OnlyIndelsRule(pos) == only_indels /\ is_snv(change[pos]) /\ phased[pos] = NoPhase

PolymerRight(pos) == length_of_polymer(fasta_chr, pos + 1, 1, cut_poly)

PolymerLeft(pos) == length_of_polymer(fasta_chr, pos, 0 - 1, cut_poly)

\* the homopolymer block is entered: neither of the rules before it skipped
ReachesPolymer(best, pos) ==
    /\ best.total # 0
    /\ ~GapRule(best, pos)
    /\ ~OnlyIndelsRule(pos)
    /\ cut_poly > 0

PolymerRaises(pos) == PolymerRight(pos) = IndexError \/ PolymerLeft(pos) = IndexError

\* max_length >= cut_poly
PolymerRule(pos) == Max({PolymerRight(pos), PolymerLeft(pos)}) >= cut_poly

\* Variant(pos, allele=..., quality=score1)
EmittedVariant(pos, allele, quality) ==
    [position |-> pos, allele |-> allele, quality |-> quality]

\* best_candidate divides by a total of 0: components[pos] is assigned
\* before the division
StepZeroDivisionError ==
    /\ pc = "votes"
    /\ vote_idx <= Len(votes)
    /\ LET pos == votes[vote_idx].pos
           best == best_candidate(votes[vote_idx].var)
       IN  /\ best.total = 0
           /\ components' = Assigned(components, pos, best.ps1)
    /\ pc' = "ZeroDivisionError"
    /\ UNCHANGED <<sliceVars, core_reads, superreads, nodes, cf_read, cf_k, pipeVars,
                   projVars, runVars, homozygous, votes, phased, change, fasta_chr,
                   gap_threshold, cut_poly, only_indels, vote_idx, super_reads>>

\* one of the three "continue"
SkipPosition ==
    /\ pc = "votes"
    /\ vote_idx <= Len(votes)
    /\ LET pos == votes[vote_idx].pos
           best == best_candidate(votes[vote_idx].var)
       IN  /\ best.total # 0
           /\ \/ GapRule(best, pos)
              \/ OnlyIndelsRule(pos)
              \/ /\ ReachesPolymer(best, pos)
                 /\ ~PolymerRaises(pos)
                 /\ PolymerRule(pos)
           /\ components' = Assigned(components, pos, best.ps1)
    /\ vote_idx' = vote_idx + 1
    /\ UNCHANGED <<pc, sliceVars, core_reads, superreads, nodes, cf_read, cf_k, pipeVars,
                   projVars, runVars, homozygous, votes, phased, change, fasta_chr,
                   gap_threshold, cut_poly, only_indels, super_reads>>

\* length_of_polymer reads the reference outside of it
StepIndexError ==
    /\ pc = "votes"
    /\ vote_idx <= Len(votes)
    /\ LET pos == votes[vote_idx].pos
           best == best_candidate(votes[vote_idx].var)
       IN  /\ ReachesPolymer(best, pos)
           /\ PolymerRaises(pos)
           /\ components' = Assigned(components, pos, best.ps1)
    /\ pc' = "IndexError"
    /\ UNCHANGED <<sliceVars, core_reads, superreads, nodes, cf_read, cf_k, pipeVars,
                   projVars, runVars, homozygous, votes, phased, change, fasta_chr,
                   gap_threshold, cut_poly, only_indels, vote_idx, super_reads>>

\* super_reads[0].append(...); super_reads[1].append(...)
EmitPosition ==
    /\ pc = "votes"
    /\ vote_idx <= Len(votes)
    /\ LET pos == votes[vote_idx].pos
           best == best_candidate(votes[vote_idx].var)
       IN  /\ best.total # 0
           /\ ~GapRule(best, pos)
           /\ ~OnlyIndelsRule(pos)
           /\ cut_poly > 0 => ~PolymerRaises(pos) /\ ~PolymerRule(pos)
           /\ components' = Assigned(components, pos, best.ps1)
           /\ super_reads' =
                 <<Append(super_reads[1], EmittedVariant(pos, best.al1, best.score1)),
                   Append(super_reads[2],
                          EmittedVariant(pos, Xor(best.al1, 1), best.score1))>>
    /\ vote_idx' = vote_idx + 1
    /\ UNCHANGED <<pc, sliceVars, core_reads, superreads, nodes, cf_read, cf_k, pipeVars,
                   projVars, runVars, homozygous, votes, phased, change, fasta_chr,
                   gap_threshold, cut_poly, only_indels>>

\* read.sort(key=lambda x: x.position), a stable sort
RECURSIVE SortByPosition(_)
SortByPosition(read) ==
    IF read = <<>> THEN <<>>
    ELSE LET rest == SortByPosition(SubSeq(read, 1, Len(read) - 1))
             last == read[Len(read)]
             k == Cardinality({i \in 1..Len(rest) : rest[i].position <= last.position})
         IN  SubSeq(rest, 1, k) \o <<last>> \o SubSeq(rest, k + 1, Len(rest))

\* for read in super_reads: read.sort(...); the two results of the sample
\* go to vcf_writer.write
SortSuperReads ==
    /\ pc = "votes"
    /\ vote_idx > Len(votes)
    /\ super_reads' = <<SortByPosition(super_reads[1]), SortByPosition(super_reads[2])>>
    /\ pc' = "written"
    /\ UNCHANGED <<sliceVars, compVars, pipeVars, projVars, runVars, homozygous, votes, phased,
                   change, fasta_chr, gap_threshold, cut_poly, only_indels, vote_idx>>

\* the inputs. The reference is a string of RefLen bases A and C that starts
\* with A. The vote table has at most two positions of the reference, in
\* either order, and the variant at one position has one of three tables,
\* each one compute_votes returns for suitable reads: all qualities 0; one
\* vote of quality 2 for allele 1 in phase set 2; a tie of two phase sets.
\* Of the variants, those at the positions 0, 1, 4, 5, .. are SNVs, and
\* those at either the odd or the even positions are phased in the VCF.
RefPositions == 0..(RefLen - 1)

Entry(ps, s0, s1) == <<[key |-> <<ps, 0>>, score |-> s0], [key |-> <<ps, 1>>, score |-> s1]>>

Vars == {Entry(1, 0, 0), Entry(2, 0, 2), Entry(1, 1, 0) \o Entry(2, 0, 1)}

VoteTables ==
    {<<>>}
    \cup {<<[pos |-> p, var |-> v]>> : p \in RefPositions, v \in Vars}
    \cup {<<[pos |-> pp[1], var |-> vv[1]], [pos |-> pp[2], var |-> vv[2]]>> :
             pp \in {x \in RefPositions \X RefPositions : x[1] # x[2]},
             vv \in Vars \X Vars}

PhasedTables ==
    {[p \in RefPositions |-> IF p % 2 = parity THEN "0|1" ELSE NoPhase] :
        parity \in {0, 1}}

ChangeTable == [p \in RefPositions |-> [position |-> p, snv |-> (p \div 2) % 2 = 0]]

GapThresholds == {50, 70}

CutPolys == {0, 2}

InitExtend ==
    /\ pc = "votes"
    /\ votes \in VoteTables
    /\ phased \in PhasedTables
    /\ change = ChangeTable
    /\ fasta_chr \in {ref \in [1..RefLen -> {"A", "C"}] : ref[1] = "A"}
    /\ gap_threshold \in GapThresholds
    /\ cut_poly \in CutPolys
    /\ only_indels \in BOOLEAN
    /\ vote_idx = 1
    /\ super_reads = <<<<>>, <<>>>>
    /\ homozygous = [p \in RefPositions |-> FALSE]
    /\ IdleSlice
    /\ IdleComp
    /\ IdlePipe
    /\ IdleProj
    /\ IdleRun

NextExtend ==
    \/ StepZeroDivisionError
    \/ SkipPosition
    \/ StepIndexError
    \/ EmitPosition
    \/ SortSuperReads

SpecExtend == InitExtend /\ [][NextExtend]_vars

-----------------------------------------------------------------------------
(* run_extend: the loop over the samples of a chromosome and the call of   *)
(* vcf_writer.write after it. The loop over the vote table of a sample is  *)
(* the one above.                                                          *)

\* a dict with one more item
Put(dict, key, value) ==
    [k \in DOMAIN dict \cup {key} |-> IF k = key THEN value ELSE dict[k]]

\* for sample in vcf_reader.samples: the reads of the sample, its votes,
\* super_reads = [[], []] and components = dict()
BeginSample ==
    /\ pc = "sample"
    /\ sample <= Len(samples)
    /\ votes' = sample_votes[samples[sample]]
    /\ super_reads' = <<<<>>, <<>>>>
    /\ components' = <<>>
    /\ vote_idx' = 1
    /\ pc' = "votes"
    /\ UNCHANGED <<sliceVars, core_reads, superreads, nodes, cf_read, cf_k, pipeVars,
                   projVars, runVars, homozygous, phased, change, fasta_chr,
                   gap_threshold, cut_poly, only_indels>>

\* the end of the loop body: the sort of the two super-reads and the two
\* assignments to sample_to_components and sample_to_super_reads
EndSample ==
    /\ pc = "votes"
    /\ vote_idx > Len(votes)
    /\ super_reads' = <<SortByPosition(super_reads[1]), SortByPosition(super_reads[2])>>
    /\ sample_to_components' = Put(sample_to_components, samples[sample], components)
    /\ sample_to_super_reads' = Put(sample_to_super_reads, samples[sample], super_reads')
    /\ sample' = sample + 1
    /\ pc' = "sample"
    /\ UNCHANGED <<sliceVars, compVars, pipeVars, projVars, poly_step, poly_res, samples,
                   sample_votes, written, homozygous, votes, phased, change, fasta_chr,
                   gap_threshold, cut_poly, only_indels, vote_idx>>

\* vcf_writer.write(chromosome, {sample: super_reads}, {sample: components})
\* after the loop: sample, super_reads and components are those of the
\* last round
WriteVcf ==
    /\ pc = "sample"
    /\ sample > Len(samples)
    /\ written' = [super_reads |-> Put(<<>>, samples[Len(samples)], super_reads),
                   components |-> Put(<<>>, samples[Len(samples)], components)]
    /\ pc' = "written"
    /\ UNCHANGED <<sliceVars, compVars, pipeVars, projVars, extVars, poly_step, poly_res,
                   samples, sample, sample_votes, sample_to_super_reads,
                   sample_to_components>>

\* the inputs: one to MaxSamples samples, each with a vote table over the
\* positions 0 and 1; no variant is phased, the three rules run with
\* gap_threshold 70, only_indels off and cut_poly 0
SampleNames == <<"s1", "s2", "s3">>

SampleVoteTables ==
    {table \in VoteTables : \A i \in 1..Len(table) : table[i].pos \in VotePositions}

InitSamples ==
    /\ pc = "sample"
    /\ samples \in {SubSeq(SampleNames, 1, n) : n \in 1..MaxSamples}
    /\ sample = 1
    /\ sample_votes \in [{samples[i] : i \in 1..Len(samples)} -> SampleVoteTables]
    /\ sample_to_super_reads = <<>>
    /\ sample_to_components = <<>>
    /\ written = <<>>
    /\ poly_step = 0
    /\ poly_res = 0
    /\ votes = <<>>
    /\ super_reads = <<>>
    /\ vote_idx = 0
    /\ homozygous = [p \in RefPositions |-> FALSE]
    /\ phased = [p \in RefPositions |-> NoPhase]
    /\ change = ChangeTable
    /\ fasta_chr = [i \in 1..RefLen |-> "A"]
    /\ gap_threshold = 70
    /\ cut_poly = 0
    /\ only_indels = FALSE
    /\ IdleSlice
    /\ IdleComp
    /\ IdlePipe
    /\ variants = <<>>
    /\ start = 0
    /\ alignment = <<>>
    /\ read_variants = <<>>

NextSamples ==
    \/ BeginSample
    \/ StepZeroDivisionError
    \/ SkipPosition
    \/ EmitPosition
    \/ EndSample
    \/ WriteVcf

SpecSamples == InitSamples /\ [][NextSamples]_vars

-----------------------------------------------------------------------------
(* length_of_polymer(ref, start, step, threshold) on its own: the          *)
(* reference is fasta_chr, the threshold cut_poly, as run_extend passes    *)
(* them.                                                                   *)

\* return res
LengthOfPolymer ==
    /\ pc = "length_of_polymer"
    /\ length_of_polymer(fasta_chr, start, poly_step, cut_poly) # IndexError
    /\ poly_res' = length_of_polymer(fasta_chr, start, poly_step, cut_poly)
    /\ pc' = "returned"
    /\ UNCHANGED <<sliceVars, compVars, pipeVars, projVars, extVars, poly_step, samples,
                   sample, sample_votes, sample_to_super_reads, sample_to_components,
                   written>>

\* ref[i] raises IndexError
LengthOfPolymerIndexError ==
    /\ pc = "length_of_polymer"
    /\ length_of_polymer(fasta_chr, start, poly_step, cut_poly) = IndexError
    /\ pc' = "IndexError"
    /\ UNCHANGED <<sliceVars, compVars, pipeVars, projVars, extVars, runVars>>

\* the inputs: every reference of RefLen bases A and C, every start index
\* inside it, both directions, the thresholds 1..MaxThreshold
InitPolymer ==
    /\ pc = "length_of_polymer"
    /\ fasta_chr \in [1..RefLen -> {"A", "C"}]
    /\ start \in 0..(RefLen - 1)
    /\ poly_step \in {1, 0 - 1}
    /\ cut_poly \in 1..MaxThreshold
    /\ poly_res = 0
    /\ variants = <<>>
    /\ alignment = <<>>
    /\ read_variants = <<>>
    /\ homozygous = <<>>
    /\ votes = <<>>
    /\ phased = <<>>
    /\ change = <<>>
    /\ gap_threshold = 0
    /\ only_indels = FALSE
    /\ vote_idx = 0
    /\ super_reads = <<>>
    /\ samples = <<>>
    /\ sample = 0
    /\ sample_votes = <<>>
    /\ sample_to_super_reads = <<>>
    /\ sample_to_components = <<>>
    /\ written = <<>>
    /\ IdleSlice
    /\ IdleComp
    /\ IdlePipe

NextPolymer == LengthOfPolymer \/ LengthOfPolymerIndexError

SpecPolymer == InitPolymer /\ [][NextPolymer]_vars

-----------------------------------------------------------------------------
(* Properties of the extension.                                            *)

\* the number of consecutive bases of the reference equal to the base at i,
\* counted from i in the direction step up to the first different base or
\* the end of the reference
RECURSIVE RunLength(_, _, _, _)
RunLength(ref, i, step, k) ==
    IF i + k * step \in 0..(Len(ref) - 1) /\ i \in 0..(Len(ref) - 1)
       /\ ref[i + k * step + 1] = ref[i + 1]
    THEN RunLength(ref, i, step, k + 1)
    ELSE k

EmittedPositions == {super_reads[1][i].position : i \in 1..Len(super_reads[1])}
                    \cup {super_reads[2][i].position : i \in 1..Len(super_reads[2])}

TopScore(var) == Max({var[i].score : i \in 1..Len(var)})

\* none of the skip rules applies to the entry
NoSkipRule(entry) ==
    /\ \/ 100 * TopScore(entry.var) >= gap_threshold * SumScores(entry.var, Len(entry.var))
       \/ phased[entry.pos] # NoPhase
    /\ \/ ~only_indels
       \/ ~change[entry.pos].snv
       \/ phased[entry.pos] # NoPhase
    /\ RunLength(fasta_chr, entry.pos, 0 - 1, 0) < cut_poly
    /\ RunLength(fasta_chr, entry.pos + 1, 1, 0) < cut_poly

\* C4: with cut_poly >= 1, a position of the vote table is in the two
\* super-reads if and only if none of the skip rules applies: the top score
\* has the share gap_threshold of the total or the variant is phased; the
\* variant is no SNV, or only_indels is off, or it is phased; the
\* homopolymer runs leftward from the position and rightward from
\* position + 1 are shorter than cut_poly.
C4_EmissionRule ==
    pc = "written" /\ cut_poly >= 1 =>
        \A i \in 1..Len(votes) :
            votes[i].pos \in EmittedPositions <=> NoSkipRule(votes[i])

\* C14 as stated: for every position of a vote table that compute_votes
\* returns for tagged reads with qualities >= 0, best_candidate returns,
\* with the key of the highest score and a fraction q = score1 / total in
\* (0, 1], and no step of the loop over the table fails.
C14_QualityFraction ==
    /\ pc \notin {"ZeroDivisionError", "IndexError"}
    /\ \A i \in 1..Len(votes) :
          i < vote_idx =>
             LET best == best_candidate(votes[i].var)
             IN  /\ best.score1 = TopScore(votes[i].var)
                 /\ 0 < best.score1
                 /\ best.score1 <= best.total

\* C15 as stated: for every sample of the VCF, vcf_writer.write is given the
\* super-reads and the component map computed for that sample, whose
\* positions are positions of the sample's own vote table.
C15_EverySampleWritten ==
    pc = "written" =>
        /\ DOMAIN written.super_reads = {samples[i] : i \in 1..Len(samples)}
        /\ DOMAIN written.components = {samples[i] : i \in 1..Len(samples)}
        /\ \A s \in DOMAIN written.super_reads :
              /\ written.super_reads[s] = sample_to_super_reads[s]
              /\ {written.super_reads[s][1][i].position :
                     i \in 1..Len(written.super_reads[s][1])}
                    \subseteq PositionsOf(sample_votes[s])
        /\ \A s \in DOMAIN written.components :
              /\ written.components[s] = sample_to_components[s]
              /\ DOMAIN written.components[s] = PositionsOf(sample_votes[s])

\* C10: the positions of the component map handed to the VCF writer are the
\* positions of the two super-reads.
C10_ComponentsOnlyEmitted ==
    pc = "written" => DOMAIN components = EmittedPositions

\* C12 as stated: for every reference, every start index inside it, both
\* directions and every threshold >= 1, length_of_polymer returns the
\* smaller one of the threshold and the length of the run of bases equal to
\* the base at start, counted from start in the direction step up to the
\* first different base or the end of the reference.
C12_PolymerLength ==
    pc # "length_of_polymer" =>
        /\ pc = "returned"
        /\ poly_res = Min({cut_poly, RunLength(fasta_chr, start, poly_step, 0)})

-----------------------------------------------------------------------------
(* Properties of slice_reads.                                              *)

\* the number of fragments of a layer whose span [b, e) holds index x
SpanCount(layer, x) ==
    Cardinality({n \in 1..Len(layer) :
                    begin_of(layer[n]) <= x /\ x < end_of(layer[n])})

\* C1: in every layer, at every moment of the slicing, every compressed
\* variant index lies in the span [b, e) of at most max_coverage fragments
\* of the layer.
C1_CoverageBound ==
    \A k \in 1..Len(slices) : \A x \in 0..(Len(position_list) - 1) :
        SpanCount(slices[k], x) <= max_coverage

\* C1, witness: a layer is full at some index and a fragment had to go to
\* the next layer.
C1_Witness ==
    /\ Len(slices) >= 2
    /\ slices[2] # <<>>
    /\ \E x \in 0..(Len(position_list) - 1) : SpanCount(slices[1], x) = max_coverage

\* the layer can take the read: fewer than max_coverage of its fragments
\* span any index of the span [b, e) of the read
CanTake(layer, read) ==
    \A x \in begin_of(read)..(end_of(read) - 1) : SpanCount(layer, x) < max_coverage

\* the step appends the read to layer k and changes no other layer
AppendsTo(k, read) ==
    /\ Len(slices') = Len(slices)
    /\ slices'[k] = Append(slices[k], read)
    /\ \A j \in 1..Len(slices) : j # k => slices'[j] = slices[j]

\* the number of fragments in the layers
RECURSIVE FragmentCount(_, _)
FragmentCount(layers, n) ==
    IF n = 0 THEN 0 ELSE FragmentCount(layers, n - 1) + Len(layers[n])

\* C11: slice_reads takes the fragments in input order; a fragment of
\* fewer than two entries reaches no layer; any other fragment is appended
\* to exactly one layer, the lowest-indexed one that can take it at that
\* moment; a layer is created only when no existing layer can take the
\* fragment, and the fragment then goes into the new layer.
C11_FirstFit ==
    /\ [][/\ pc \in {"for", "while"} /\ pc' # "sliced" =>
              /\ read_idx' \in {read_idx, read_idx + 1}
              /\ Len(slices') \in {Len(slices), Len(slices) + 1}
          /\ pc = "for" /\ pc' # "sliced" =>
              /\ slices' = slices
              /\ read_idx' = read_idx + 1 <=> Len(reads[read_idx].variants) < 2
          /\ pc = "while" /\ read_idx' = read_idx + 1 =>
              \E k \in 1..Len(slices) :
                  /\ AppendsTo(k, reads[read_idx])
                  /\ CanTake(slices[k], reads[read_idx])
                  /\ \A j \in 1..(k - 1) : ~CanTake(slices[j], reads[read_idx])
          /\ pc = "while" /\ read_idx' = read_idx =>
              /\ SubSeq(slices', 1, Len(slices)) = slices
              /\ \A j \in 1..(slice_id + 1) : ~CanTake(slices[j], reads[read_idx])
              /\ Len(slices') = Len(slices) + 1 =>
                    /\ slices'[Len(slices')] = <<>>
                    /\ slice_id' = Len(slices)
                    /\ slice_id = Len(slices) - 1
         ]_vars
    /\ [](pc = "sliced" =>
            FragmentCount(slices, Len(slices)) =
               Cardinality({i \in 1..Len(reads) : Len(reads[i].variants) >= 2}))

\* C11, witness: the second fragment found the first layer full over its
\* span, a second layer was created for it, and it is the only fragment
\* there.
C11_Witness ==
    /\ pc = "sliced"
    /\ Len(reads) >= 2
    /\ Len(slices) = 2
    /\ slices[1] = <<reads[1]>>
    /\ slices[2] = <<reads[Len(reads)]>>
    /\ ~CanTake(slices[1], reads[Len(reads)])

\* the number of layers when the search for the fragment at read_idx began:
\* a layer created during the search is the last one and is empty
LayersAtBegin ==
    IF Len(slices) >= 2 /\ slices[Len(slices)] = <<>> THEN Len(slices) - 1 ELSE Len(slices)

\* C13: for every list of fragments and every max_coverage >= 1,
\* slice_reads returns; the search for a layer tests at most (number of
\* layers at its begin + 1) layers, since a layer without fragments passes
\* the test; there is always at least one layer, and never more than
\* max(1, number of fragments of two or more entries).
C13_Termination ==
    /\ [](/\ Len(slices) >= 1
          /\ Len(slices) <=
                Max({1, Cardinality({i \in 1..Len(reads) : Len(reads[i].variants) >= 2})})
          /\ pc = "while" =>
                /\ slice_id + 1 <= Len(slices)
                /\ slice_id + 1 <= LayersAtBegin + 1
                /\ slices[slice_id + 1] = <<>> =>
                      Fits(slice_coverages[slice_id + 1], begin_of(reads[read_idx]),
                           end_of(reads[read_idx])))
    /\ <>(pc = "sliced")

\* C13, witness: slice_reads has returned, with more than one layer and as
\* many layers as there are fragments of two or more entries.
C13_Witness ==
    /\ pc = "sliced"
    /\ Len(slices) >= 2
    /\ Len(slices) = Cardinality({i \in 1..Len(reads) : Len(reads[i].variants) >= 2})

-----------------------------------------------------------------------------
(* Properties of find_components.                                          *)

\* two phased positions occur on one read of rs
LinkedBy(rs, p, q) ==
    /\ p \in PhasedSet
    /\ q \in PhasedSet
    /\ \E i \in 1..Len(rs) :
          /\ p \in {rs[i][k].position : k \in 1..Len(rs[i])}
          /\ q \in {rs[i][k].position : k \in 1..Len(rs[i])}

\* the connected component of the positions S under LinkedBy
RECURSIVE ComponentOf(_, _)
ComponentOf(rs, S) ==
    LET T == S \cup {q \in PhasedSet : \E p \in S : LinkedBy(rs, p, q)}
    IN  IF T = S THEN S ELSE ComponentOf(rs, T)

\* the positions in the tree of x
TreeOf(ns, x) == {n \in DOMAIN ns : RootOf(ns, n) = RootOf(ns, x)}

\* C2: find_components returns a map whose keys are the phased positions
\* and whose value at p is the smallest position of the connected component
\* of p under "both phased and on one fragment"; after every merge and
\* every compression the root of a tree is its smallest position and a tree
\* stays within one connected component.
C2_Representatives ==
    /\ pc = "merge" =>
          \A n \in DOMAIN nodes :
              /\ RootOf(nodes, n) = Min(TreeOf(nodes, n))
              /\ TreeOf(nodes, n) \subseteq ComponentOf(core_reads, {n})
    /\ pc = "done" =>
          /\ DOMAIN components = PhasedSet
          /\ \A p \in PhasedSet :
                components[p] = Min(ComponentOf(core_reads, {p}))
          /\ \A p, q \in PhasedSet :
                LinkedBy(core_reads, p, q) => components[p] = components[q]
          /\ \A p \in PhasedSet :
                ComponentOf(core_reads, {p}) = {p} => components[p] = p

\* C2, witness: two positions that share no read are joined through a
\* third one, and a position of its own stays alone.
C2_Witness ==
    /\ pc = "done"
    /\ \E p, q \in PhasedSet :
          /\ p # q
          /\ ~LinkedBy(core_reads, p, q)
          /\ components[p] = components[q]

-----------------------------------------------------------------------------
(* Properties of main.                                                     *)

\* the fragments of all layers of the slicer, as the DP's read set would
\* hold them: the original (unsliced) read set
UnslicedReads == ReadSetOf(all_slices(slices))

=============================================================================
